---- MODULE Spec2Model ----
(***************************************************************************)
(* A model of flaskr/auth.py: the register, login and logout views, the    *)
(* before-request identity loader load_logged_in_user and the              *)
(* login_required guard, run by concurrently served requests against one   *)
(* user table and one session per client.                                  *)
(*                                                                         *)
(* Strings are sequences of symbols ("" is << >>).  Python's None is       *)
(* NoneRow for a row, NoneId for a session value and << >> for an error    *)
(* message.                                                                *)
(***************************************************************************)
EXTENDS Integers, Sequences, FiniteSets, TLC

\* ---------------------------------------------------------------- inputs

\* The clients; each holds one session cookie and has at most one request
\* in flight.
Clients == {"c1", "c2"}

\* request.form['username']: empty, and two names that differ only by case.
Usernames == {<< >>, <<"a">>, <<"A">>}

\* request.form['password']: empty, and two different passwords.
Passwords == {<< >>, <<"p">>, <<"q">>}

\* The salts generate_password_hash draws from while serving a registration.
Salts == {<<"s">>}

\* The keyword arguments a guarded view may be called with.
ViewArgs == {"x", "y"}

\* ---------------------------------------------------------------- values

NoneRow == [id |-> 0, username |-> << >>, password |-> << >>]

NoneId == 0

NoError == << >>

EmptySession == [k \in {} |-> 0]

NoForm == [username |-> << >>, password |-> << >>]

NoRequest == [endpoint |-> "none", method |-> "GET", form |-> NoForm, kwargs |-> ""]

Forms == [username : Usernames, password : Passwords]

\* The requests a client may send to the blueprint's routes and to a view
\* wrapped by login_required.
Requests ==
    {[endpoint |-> e, method |-> "POST", form |-> f, kwargs |-> ""] :
        e \in {"register", "login"}, f \in Forms}
    \cup {[endpoint |-> e, method |-> "GET", form |-> NoForm, kwargs |-> ""] :
        e \in {"register", "login", "logout"}}
    \cup {[endpoint |-> "view", method |-> "GET", form |-> NoForm, kwargs |-> k] :
        k \in ViewArgs}

\* ------------------------------------------------------------- responses

NoResponse == [kind |-> "none", target |-> "", flashed |-> NoError]

\* redirect(url_for(target))
redirect(target) == [kind |-> "redirect", target |-> target, flashed |-> NoError]

\* flash(error) (when there is one) followed by render_template(template):
\* the message is shown by the rendered page.
render_template(template, error) ==
    [kind |-> "render", target |-> template, flashed |-> error]

\* An exception no handler of the view catches: the request fails.
unhandled(exception) == [kind |-> "exception", target |-> exception, flashed |-> NoError]

\* --------------------------------------------------------- password hash

Method == <<"pbkdf2:sha256">>

\* The digest's alphabet: each symbol's code.
Hex(x) ==
    CASE x = "p" -> "70"
      [] x = "q" -> "71"
      [] x = "s" -> "73"
      [] x = "t" -> "74"
      [] OTHER -> "00"

\* The keyed digest of the password under the salt, deterministic and
\* one to one on salts of one length.
Digest(method, salt, password) ==
    [i \in 1..(Len(salt) + Len(password)) |->
        IF i <= Len(salt) THEN Hex(salt[i]) ELSE Hex(password[i - Len(salt)])]

\* Mutant: the password is stored as it was typed.
generate_password_hash_plain(password, salt) == password

\* generate_password_hash(password): method$salt$digest under a fresh salt.
generate_password_hash(password, salt) ==
    Method \o <<"$">> \o salt \o <<"$">> \o Digest(Method, salt, password)

\* The positions of "$" in a hash string.
Dollars(s) == {i \in 1..Len(s) : s[i] = "$"}

Min(S) == CHOOSE m \in S : \A n \in S : m <= n

\* Mutant: the digest is recomputed without the stored salt.
check_password_hash_nosalt(pwhash, password) ==
    IF Cardinality(Dollars(pwhash)) < 2 THEN FALSE
    ELSE LET d1 == Min(Dollars(pwhash))
             d2 == Min(Dollars(pwhash) \ {d1})
             method == SubSeq(pwhash, 1, d1 - 1)
             hashval == SubSeq(pwhash, d2 + 1, Len(pwhash))
         IN  Digest(method, << >>, password) = hashval

\* check_password_hash(pwhash, password): split method$salt$digest at the
\* first two "$" and compare the recomputed digest; fewer than two "$" is
\* no hash and verifies nothing.
check_password_hash(pwhash, password) ==
    IF Cardinality(Dollars(pwhash)) < 2 THEN FALSE
    ELSE LET d1 == Min(Dollars(pwhash))
             d2 == Min(Dollars(pwhash) \ {d1})
             method == SubSeq(pwhash, 1, d1 - 1)
             salt == SubSeq(pwhash, d1 + 1, d2 - 1)
             hashval == SubSeq(pwhash, d2 + 1, Len(pwhash))
         IN  Digest(method, salt, password) = hashval

\* ------------------------------------------------------------- the store

\* Lower-case of a symbol (used by a mutant of the username lookup).
Lower(x) == IF x = "A" THEN "a" ELSE x

LowerStr(s) == [i \in 1..Len(s) |-> Lower(s[i])]

Rows(table) == {table[i] : i \in 1..Len(table)}

\* fetchone() of a query whose matching rows are `rows`: the first row in
\* table order, or None.
fetchone(table, rows) ==
    IF rows = {} THEN NoneRow
    ELSE table[Min({i \in 1..Len(table) : table[i] \in rows})]

\* Mutant: the lookup ignores case.
SelectByUsername_nocase(table, username) ==
    fetchone(table, {r \in Rows(table) : LowerStr(r.username) = LowerStr(username)})

\* SELECT ... FROM user WHERE username = ?
SelectByUsername(table, username) ==
    fetchone(table, {r \in Rows(table) : r.username = username})

\* Mutant: the query has no WHERE clause.
SelectById_first(table, user_id) == fetchone(table, Rows(table))

\* SELECT * FROM user WHERE id = ?
SelectById(table, user_id) ==
    fetchone(table, {r \in Rows(table) : r.id = user_id})

\* The user table's UNIQUE constraint on username.
UniqueViolation(table, username) ==
    \E r \in Rows(table) : r.username = username

\* The user table's automatically assigned integer key.
NextId(table) == Len(table) + 1

\* Mutant: the statement replaces the table's rows instead of adding one.
InsertUser_replace(table, username, pwhash) ==
    <<[id |-> NextId(table), username |-> username, password |-> pwhash]>>

\* INSERT INTO user (username, password) VALUES (?, ?) and commit.
InsertUser(table, username, pwhash) ==
    Append(table, [id |-> NextId(table), username |-> username, password |-> pwhash])

\* ----------------------------------------------------------- the session

\* The keys a session may hold: user_id, which auth.py writes, and a key
\* another view of the application has set.
SessionKeys == {"user_id", "other"}

\* session.get(key)
SessionGet(s, key) == IF key \in DOMAIN s THEN s[key] ELSE NoneId

\* session[key] = value
SessionSet(s, key, value) ==
    [k \in DOMAIN s \cup {key} |-> IF k = key THEN value ELSE s[k]]

\* ----------------------------------------------------------------- state

VARIABLES
    users,          \* the user table, in insertion order
    sessions,       \* each client's session
    pc,             \* where each client's request is: done, load, view, insert
    req,            \* each client's current (or last) request
    g,              \* g.user of each client's current request
    resp,           \* the response to each client's last request
    viewLog,        \* the arguments of the wrapped view's calls in the request
    registrations,  \* history: what each successful registration was given
    sessionBefore,  \* history: the session each client's request arrived with
    loads,          \* history: how often the loader ran in each client's request
    lastLogin       \* history: the client's last session-changing operation
                    \* was a login that succeeded

vars == <<users, sessions, pc, req, g, resp, viewLog, registrations, sessionBefore,
          loads, lastLogin>>

TypeOK ==
    /\ pc \in [Clients -> {"done", "load", "view", "insert"}]
    /\ req \in [Clients -> Requests \cup {NoRequest}]
    /\ \A c \in Clients : DOMAIN sessions[c] \subseteq SessionKeys

Init ==
    /\ users = << >>
    /\ sessions = [c \in Clients |-> EmptySession]
    /\ pc = [c \in Clients |-> "done"]
    /\ req = [c \in Clients |-> NoRequest]
    /\ g = [c \in Clients |-> NoneRow]
    /\ resp = [c \in Clients |-> NoResponse]
    /\ viewLog = [c \in Clients |-> << >>]
    /\ registrations = {}
    /\ sessionBefore = [c \in Clients |-> EmptySession]
    /\ loads = [c \in Clients |-> 0]
    /\ lastLogin = [c \in Clients |-> FALSE]

\* --------------------------------------------------------------- actions

\* Mutant: the loader is registered with before_request, for the
\* blueprint's own routes only.
LoaderApplies_blueprint(endpoint) == endpoint \in {"register", "login", "logout"}

\* bp.before_app_request: the loader runs before the view of every
\* request, whatever the endpoint.
LoaderApplies(endpoint) == TRUE

\* A client sends a request: a fresh request context.
Begin(c) ==
    /\ pc[c] = "done"
    /\ \E q \in Requests :
        /\ req' = [req EXCEPT ![c] = q]
        /\ pc' = [pc EXCEPT ![c] = IF LoaderApplies(q.endpoint) THEN "load" ELSE "view"]
    /\ g' = [g EXCEPT ![c] = NoneRow]
    /\ resp' = [resp EXCEPT ![c] = NoResponse]
    /\ viewLog' = [viewLog EXCEPT ![c] = << >>]
    /\ sessionBefore' = [sessionBefore EXCEPT ![c] = sessions[c]]
    /\ loads' = [loads EXCEPT ![c] = 0]
    /\ UNCHANGED <<users, sessions, registrations, lastLogin>>

\* The response is returned: the request's context, and g with it, is gone.
Finish(c) ==
    /\ pc' = [pc EXCEPT ![c] = "done"]
    /\ g' = [g EXCEPT ![c] = NoneRow]

\* g.user as load_logged_in_user sets it.
load_logged_in_user(table, s) ==
    LET user_id == SessionGet(s, "user_id")
    IN  IF user_id = NoneId THEN NoneRow ELSE SelectById(table, user_id)

\* Mutant: g is one object shared by all requests.
SetG_global(gs, c, user) == [d \in DOMAIN gs |-> user]

\* g.user = ...: g belongs to the request that is being served.
SetG(gs, c, user) == [gs EXCEPT ![c] = user]

\* before_app_request: runs before the view of every request.
LoadLoggedInUser(c) ==
    /\ pc[c] = "load"
    /\ g' = SetG(g, c, load_logged_in_user(users, sessions[c]))
    /\ pc' = [pc EXCEPT ![c] = "view"]
    /\ loads' = [loads EXCEPT ![c] = loads[c] + 1]
    /\ UNCHANGED <<users, sessions, req, resp, viewLog, registrations, sessionBefore,
                   lastLogin>>

\* Mutant: the password is checked before the username.
RegisterError_swapped(table, username, password) ==
    IF password = << >> THEN <<"Password is required.">>
    ELSE IF username = << >> THEN <<"Username is required.">>
    ELSE IF SelectByUsername(table, username) # NoneRow
         THEN <<"User ", username, " is already registered.">>
    ELSE NoError

\* Mutant: the username is not looked up.
RegisterError_nolookup(table, username, password) ==
    IF username = << >> THEN <<"Username is required.">>
    ELSE IF password = << >> THEN <<"Password is required.">>
    ELSE NoError

\* register's validation: the error, or None.
RegisterError(table, username, password) ==
    IF username = << >> THEN <<"Username is required.">>
    ELSE IF password = << >> THEN <<"Password is required.">>
    ELSE IF SelectByUsername(table, username) # NoneRow
         THEN <<"User ", username, " is already registered.">>
    ELSE NoError

\* Mutant: the view does not look at the method.
IsPostMethod_always(method) == TRUE

\* request.method == 'POST'
IsPostMethod(method) == method = "POST"

\* register, GET: the form.
RegisterGet(c) ==
    /\ pc[c] = "view"
    /\ req[c].endpoint = "register"
    /\ ~IsPostMethod(req[c].method)
    /\ resp' = [resp EXCEPT ![c] = render_template("auth/register.html", NoError)]
    /\ Finish(c)
    /\ UNCHANGED <<users, sessions, req, viewLog, registrations, sessionBefore,
                   loads, lastLogin>>

\* register, POST, up to the lookup: an error is flashed and the form
\* rendered again; without one the insert follows.
RegisterValidate(c) ==
    /\ pc[c] = "view"
    /\ req[c].endpoint = "register"
    /\ IsPostMethod(req[c].method)
    /\ LET error == RegisterError(users, req[c].form.username, req[c].form.password)
       IN  IF error = NoError
           THEN /\ pc' = [pc EXCEPT ![c] = "insert"]
                /\ UNCHANGED <<resp, g>>
           ELSE /\ Finish(c)
                /\ resp' = [resp EXCEPT ![c] = render_template("auth/register.html", error)]
    /\ UNCHANGED <<users, sessions, req, viewLog, registrations, sessionBefore,
                   loads, lastLogin>>

\* register, POST, the insert and commit.  The table refuses a second row
\* of a username; register catches nothing, so the request then fails.
RegisterInsert(c) ==
    /\ pc[c] = "insert"
    /\ \E salt \in Salts :
        LET username == req[c].form.username
            password == req[c].form.password
        IN  IF UniqueViolation(users, username)
            THEN /\ resp' = [resp EXCEPT ![c] = unhandled("IntegrityError")]
                 /\ UNCHANGED <<users, registrations>>
            ELSE /\ users' = InsertUser(users, username, generate_password_hash(password, salt))
                 /\ registrations' = registrations \cup
                        {[id |-> NextId(users), username |-> username, password |-> password]}
                 /\ resp' = [resp EXCEPT ![c] = redirect("auth.login")]
    /\ Finish(c)
    /\ UNCHANGED <<sessions, req, viewLog, sessionBefore, loads, lastLogin>>

\* login's decision: the error, or None.
LoginError(user, password) ==
    IF user = NoneRow THEN <<"Incorrect username.">>
    ELSE IF ~check_password_hash(user.password, password) THEN <<"Incorrect password.">>
    ELSE NoError

\* login, GET: the form.
LoginGet(c) ==
    /\ pc[c] = "view"
    /\ req[c].endpoint = "login"
    /\ ~IsPostMethod(req[c].method)
    /\ resp' = [resp EXCEPT ![c] = render_template("auth/login.html", NoError)]
    /\ Finish(c)
    /\ UNCHANGED <<users, sessions, req, viewLog, registrations, sessionBefore,
                   loads, lastLogin>>

\* Mutant: the user_id is set without clearing the session first.
LoginSession_noclear(s, user, error) ==
    IF error = NoError THEN SessionSet(s, "user_id", user.id) ELSE s

\* Mutant: the session is cleared and set before the credentials are judged.
LoginSession_early(s, user, error) ==
    SessionSet(EmptySession, "user_id", user.id)

\* The session login leaves: cleared and set on success, untouched on error.
LoginSession(s, user, error) ==
    IF error = NoError THEN SessionSet(EmptySession, "user_id", user.id) ELSE s

\* login, POST.
Login(c) ==
    /\ pc[c] = "view"
    /\ req[c].endpoint = "login"
    /\ IsPostMethod(req[c].method)
    /\ LET user == SelectByUsername(users, req[c].form.username)
           error == LoginError(user, req[c].form.password)
       IN  /\ sessions' = [sessions EXCEPT ![c] = LoginSession(sessions[c], user, error)]
           /\ resp' = [resp EXCEPT ![c] =
                  IF error = NoError THEN redirect("index")
                  ELSE render_template("auth/login.html", error)]
           /\ lastLogin' = [lastLogin EXCEPT ![c] = (error = NoError) \/ lastLogin[c]]
    /\ Finish(c)
    /\ UNCHANGED <<users, req, viewLog, registrations, sessionBefore, loads>>

\* Mutant: logout removes the user_id and nothing else.
LogoutSession_popuser(s) == [k \in DOMAIN s \ {"user_id"} |-> s[k]]

\* Mutant: logout leaves the session as it is.
LogoutSession_keep(s) == s

\* session.clear()
LogoutSession(s) == EmptySession

\* logout.
Logout(c) ==
    /\ pc[c] = "view"
    /\ req[c].endpoint = "logout"
    /\ sessions' = [sessions EXCEPT ![c] = LogoutSession(sessions[c])]
    /\ resp' = [resp EXCEPT ![c] = redirect("index")]
    /\ lastLogin' = [lastLogin EXCEPT ![c] = FALSE]
    /\ Finish(c)
    /\ UNCHANGED <<users, req, viewLog, registrations, sessionBefore, loads>>

\* The view login_required wraps: it answers with its argument and leaves a
\* trace of the call.
view(kwargs, log) ==
    [resp |-> [kind |-> "view", target |-> kwargs, flashed |-> NoError],
     log |-> Append(log, kwargs)]

\* Mutant: the view runs before the identity is looked at.
wrapped_view_late(user, kwargs, log) ==
    LET r == view(kwargs, log)
    IN  IF user = NoneRow THEN [resp |-> redirect("auth.login"), log |-> r.log] ELSE r

\* Mutant: the view is called without the request's arguments.
wrapped_view_noargs(user, kwargs, log) ==
    IF user = NoneRow THEN [resp |-> redirect("auth.login"), log |-> log]
    ELSE view("", log)

\* login_required(view): the wrapped view.
wrapped_view(user, kwargs, log) ==
    IF user = NoneRow THEN [resp |-> redirect("auth.login"), log |-> log]
    ELSE view(kwargs, log)

\* A request to a view wrapped by login_required.
GuardedView(c) ==
    /\ pc[c] = "view"
    /\ req[c].endpoint = "view"
    /\ LET r == wrapped_view(g[c], req[c].kwargs, viewLog[c])
       IN  /\ resp' = [resp EXCEPT ![c] = r.resp]
           /\ viewLog' = [viewLog EXCEPT ![c] = r.log]
    /\ Finish(c)
    /\ UNCHANGED <<users, sessions, req, registrations, sessionBefore, loads, lastLogin>>

Next ==
    \E c \in Clients :
        \/ Begin(c)
        \/ LoadLoggedInUser(c)
        \/ RegisterGet(c)
        \/ RegisterValidate(c)
        \/ RegisterInsert(c)
        \/ LoginGet(c)
        \/ Login(c)
        \/ Logout(c)
        \/ GuardedView(c)

Spec == Init /\ [][Next]_vars

\* ------------------------------------------- a client with a past session

\* The client whose requests are followed when it arrives with a session of
\* earlier use.
Returning == "c1"

\* The table as the test fixture fills it (one user), or empty after init_db.
PreloadedTables ==
    {<< >>,
     <<[id |-> 1, username |-> <<"a">>,
        password |-> generate_password_hash(<<"p">>, <<"s">>)]>>}

\* The sessions a cookie of earlier use may hold: any of the keys, a
\* user_id of the preloaded row (1) or of a row the table no longer has (3).
CarriedSessions ==
    UNION {[K -> {1, 3}] : K \in SUBSET SessionKeys}

InitCarried ==
    /\ users \in PreloadedTables
    /\ \E s \in CarriedSessions :
        /\ sessions = [c \in Clients |-> IF c = Returning THEN s ELSE EmptySession]
        /\ sessionBefore = [c \in Clients |-> IF c = Returning THEN s ELSE EmptySession]
        /\ lastLogin = [c \in Clients |-> c = Returning /\ "user_id" \in DOMAIN s]
    /\ pc = [c \in Clients |-> "done"]
    /\ req = [c \in Clients |-> NoRequest]
    /\ g = [c \in Clients |-> NoneRow]
    /\ resp = [c \in Clients |-> NoResponse]
    /\ viewLog = [c \in Clients |-> << >>]
    /\ registrations =
          {[id |-> users[i].id, username |-> users[i].username, password |-> <<"p">>] :
              i \in 1..Len(users)}
    /\ loads = [c \in Clients |-> 0]

NextCarried ==
    \/ Begin(Returning)
    \/ LoadLoggedInUser(Returning)
    \/ RegisterGet(Returning)
    \/ RegisterValidate(Returning)
    \/ RegisterInsert(Returning)
    \/ LoginGet(Returning)
    \/ Login(Returning)
    \/ Logout(Returning)
    \/ GuardedView(Returning)

SpecCarried == InitCarried /\ [][NextCarried]_vars

\* ---------------------------------------------------------------- claims

IsPost(c, endpoint) == req[c].endpoint = endpoint /\ req[c].method = "POST"

\* The handler of c's request returns its response in this step.
Returns(c) == pc[c] # "done" /\ pc'[c] = "done"

\* The view of c's request takes its first step.
ViewSteps(c) == pc[c] = "view" /\ pc'[c] # "view"

Registered(table, username) == \E r \in Rows(table) : r.username = username

CountRows(table, username) ==
    Cardinality({i \in 1..Len(table) : table[i].username = username})

AlreadyRegistered(username) == <<"User ", username, " is already registered.">>

RegisterSucceeded(c) ==
    pc[c] = "done" /\ IsPost(c, "register") /\ resp[c] = redirect("auth.login")

\* C1: two register requests that carry the same new username and non-empty
\* passwords, however their steps interleave, end with one redirect to the
\* login page and one "already registered" message on the form, never with
\* a failed request, and the table then holds one row of that username.
C1_ConcurrentRegister ==
    \A c1, c2 \in Clients :
        (/\ c1 # c2
         /\ pc[c1] = "done" /\ IsPost(c1, "register")
         /\ pc[c2] = "done" /\ IsPost(c2, "register")
         /\ req[c1].form.username = req[c2].form.username
         /\ req[c1].form.username # << >>
         /\ req[c1].form.password # << >>
         /\ req[c2].form.password # << >>)
        => LET username == req[c1].form.username
               outcomes == {redirect("auth.login"),
                            render_template("auth/register.html",
                                            AlreadyRegistered(username))}
           IN  /\ resp[c1] \in outcomes
               /\ resp[c2] \in outcomes
               /\ ~(resp[c1] = redirect("auth.login") /\ resp[c2] = redirect("auth.login"))
               /\ CountRows(users, username) = 1

\* C2: a register POST with a non-empty username that no row holds and a
\* non-empty password passes validation without touching the table, and its
\* insert adds exactly one row: that username, a password hash that is not
\* the password and that verifies the password; the response redirects to
\* the login page.
C2_RegisterCreatesUser ==
    [][\A c \in Clients :
        LET username == req[c].form.username
            password == req[c].form.password
        IN  (/\ IsPost(c, "register")
             /\ username # << >>
             /\ password # << >>
             /\ ~Registered(users, username))
            => /\ ViewSteps(c) => (pc'[c] = "insert" /\ users' = users)
               /\ (pc[c] = "insert" /\ Returns(c)) =>
                    /\ Len(users') = Len(users) + 1
                    /\ SubSeq(users', 1, Len(users)) = users
                    /\ users'[Len(users')].username = username
                    /\ users'[Len(users')].password # password
                    /\ check_password_hash(users'[Len(users')].password, password)
                    /\ resp'[c] = redirect("auth.login")
      ]_vars

C2_Witness ==
    \E c \in Clients :
        /\ RegisterSucceeded(c)
        /\ \E r \in Rows(users) :
            /\ r.username = req[c].form.username
            /\ r.password # req[c].form.password
            /\ check_password_hash(r.password, req[c].form.password)

\* C3: a register POST with a non-empty username that a row already holds
\* and a non-empty password flashes "User ... is already registered." on
\* the form and leaves the table, that row included, as it was.
C3_RegisterConflict ==
    [][\A c \in Clients :
        LET username == req[c].form.username
            password == req[c].form.password
        IN  (/\ ViewSteps(c)
             /\ IsPost(c, "register")
             /\ username # << >>
             /\ password # << >>
             /\ Registered(users, username))
            => /\ pc'[c] = "done"
               /\ resp'[c] = render_template("auth/register.html",
                                             AlreadyRegistered(username))
               /\ users' = users
      ]_vars

C3_Witness ==
    \E c \in Clients :
        /\ pc[c] = "done"
        /\ IsPost(c, "register")
        /\ resp[c].flashed = AlreadyRegistered(req[c].form.username)
        /\ CountRows(users, req[c].form.username) = 1

\* C4: register validates in order: an empty username gives "Username is
\* required." whatever the password and the table; a non-empty username
\* with an empty password gives "Password is required." even when the
\* username is registered; the lookup decides only when both are non-empty.
\* No validation failure adds a row.
C4_RegisterValidationOrder ==
    [][\A c \in Clients :
        LET username == req[c].form.username
            password == req[c].form.password
        IN  (ViewSteps(c) /\ IsPost(c, "register"))
            => /\ username = << >> =>
                    /\ pc'[c] = "done"
                    /\ resp'[c] = render_template("auth/register.html",
                                                  <<"Username is required.">>)
               /\ (username # << >> /\ password = << >>) =>
                    /\ pc'[c] = "done"
                    /\ resp'[c] = render_template("auth/register.html",
                                                  <<"Password is required.">>)
               /\ (pc'[c] = "insert" \/ resp'[c].flashed = AlreadyRegistered(username))
                    => (username # << >> /\ password # << >>)
               /\ users' = users
      ]_vars

C4_Witness ==
    \E c1, c2 \in Clients :
        /\ pc[c1] = "done" /\ IsPost(c1, "register")
        /\ req[c1].form.password = << >>
        /\ Registered(users, req[c1].form.username)
        /\ resp[c1].flashed = <<"Password is required.">>
        /\ pc[c2] = "done" /\ IsPost(c2, "register")
        /\ req[c2].form = NoForm
        /\ resp[c2].flashed = <<"Username is required.">>

\* C5: once register(u, p) has succeeded, every login POST with u and p
\* redirects to the index and leaves the session's user_id at the id of the
\* row that registration created, and the loader of a request carrying that
\* user_id sets g.user to that row.
C5_RegisterLoginRoundTrip ==
    [][\A c \in Clients : \A reg \in registrations :
        /\ (/\ ViewSteps(c)
            /\ IsPost(c, "login")
            /\ req[c].form.username = reg.username
            /\ req[c].form.password = reg.password)
           => /\ pc'[c] = "done"
              /\ resp'[c] = redirect("index")
              /\ SessionGet(sessions'[c], "user_id") = reg.id
        /\ (/\ pc[c] = "load" /\ pc'[c] = "view"
            /\ SessionGet(sessions[c], "user_id") = reg.id)
           => /\ g'[c] \in Rows(users)
              /\ g'[c].id = reg.id
              /\ g'[c].username = reg.username
              /\ check_password_hash(g'[c].password, reg.password)
      ]_vars

C5_Witness ==
    \E c \in Clients : \E reg \in registrations :
        /\ pc[c] = "view"
        /\ sessionBefore[c] = SessionSet(EmptySession, "user_id", reg.id)
        /\ g[c].id = reg.id
        /\ g[c].username = reg.username
        /\ Len(users) = 2

\* C6: a login POST for a registered username with a password that does not
\* verify against the stored hash flashes "Incorrect password." on the form
\* and leaves the session as it was, whoever it was logged in as.
C6_LoginWrongPassword ==
    [][\A c \in Clients :
        LET user == SelectByUsername(users, req[c].form.username)
        IN  (/\ ViewSteps(c)
             /\ IsPost(c, "login")
             /\ Registered(users, req[c].form.username)
             /\ ~check_password_hash(user.password, req[c].form.password))
            => /\ pc'[c] = "done"
               /\ resp'[c] = render_template("auth/login.html",
                                             <<"Incorrect password.">>)
               /\ sessions' = sessions
      ]_vars

C6_Witness ==
    \E c \in Clients :
        /\ pc[c] = "done"
        /\ IsPost(c, "login")
        /\ resp[c].flashed = <<"Incorrect password.">>
        /\ SessionGet(sessions[c], "user_id") # NoneId
        /\ SessionGet(sessions[c], "user_id")
              # SelectByUsername(users, req[c].form.username).id
        /\ sessions[c] = sessionBefore[c]

\* C7: a login POST whose username no row holds exactly (case matters)
\* flashes "Incorrect username.", whatever the password, and leaves the
\* session as it was.
C7_LoginUnknownUsername ==
    [][\A c \in Clients :
        (/\ ViewSteps(c)
         /\ IsPost(c, "login")
         /\ ~Registered(users, req[c].form.username))
        => /\ pc'[c] = "done"
           /\ resp'[c] = render_template("auth/login.html",
                                         <<"Incorrect username.">>)
           /\ sessions' = sessions
      ]_vars

C7_Witness ==
    \E c \in Clients :
        /\ pc[c] = "done"
        /\ IsPost(c, "login")
        /\ resp[c].flashed = <<"Incorrect username.">>
        /\ req[c].form.username # << >>
        /\ \E r \in Rows(users) :
              LowerStr(r.username) = LowerStr(req[c].form.username)
        /\ SessionGet(sessions[c], "user_id") # NoneId
        /\ sessions[c] = sessionBefore[c]

\* C8: logout leaves the session without a user_id; the loader of a request
\* whose session has no user_id sets g.user to None; and a session without
\* a user_id gets one only by a login POST of that client that succeeds.
C8_LogoutThenAnonymous ==
    [][\A c \in Clients :
        /\ (ViewSteps(c) /\ req[c].endpoint = "logout")
           => /\ pc'[c] = "done"
              /\ "user_id" \notin DOMAIN sessions'[c]
        /\ (pc[c] = "load" /\ pc'[c] = "view" /\ "user_id" \notin DOMAIN sessions[c])
           => g'[c] = NoneRow
        /\ ("user_id" \notin DOMAIN sessions[c] /\ "user_id" \in DOMAIN sessions'[c])
           => /\ ViewSteps(c)
              /\ IsPost(c, "login")
              /\ resp'[c] = redirect("index")
      ]_vars

C8_Witness ==
    \E c \in Clients :
        /\ pc[c] = "view"
        /\ req[c].endpoint = "view"
        /\ g[c] = NoneRow
        /\ sessions[c] = EmptySession
        /\ \E d \in Clients \ {c} :
            /\ pc[d] = "done"
            /\ req[d].endpoint = "logout"
            /\ SessionGet(sessionBefore[d], "user_id") # NoneId
            /\ sessions[d] = EmptySession

\* C9: the guard of a request whose g.user is None redirects to the login
\* page without calling the wrapped view, and changes neither the table nor
\* any session.
C9_GuardRedirectsAnonymous ==
    [][\A c \in Clients :
        (ViewSteps(c) /\ req[c].endpoint = "view" /\ g[c] = NoneRow)
        => /\ pc'[c] = "done"
           /\ resp'[c] = redirect("auth.login")
           /\ viewLog'[c] = << >>
           /\ users' = users
           /\ sessions' = sessions
      ]_vars

C9_Witness ==
    \E c \in Clients :
        /\ pc[c] = "done"
        /\ req[c].endpoint = "view"
        /\ sessions[c] = EmptySession
        /\ resp[c] = redirect("auth.login")
        /\ viewLog[c] = << >>

\* C10: the guard of a request whose g.user is a user calls the wrapped
\* view once, with the request's arguments, and returns what it returns:
\* the response and the trace are those of the view called directly.
C10_GuardPassesThrough ==
    [][\A c \in Clients :
        (ViewSteps(c) /\ req[c].endpoint = "view" /\ g[c] # NoneRow)
        => /\ pc'[c] = "done"
           /\ resp'[c] = view(req[c].kwargs, viewLog[c]).resp
           /\ viewLog'[c] = view(req[c].kwargs, viewLog[c]).log
           /\ viewLog'[c] = <<req[c].kwargs>>
           /\ users' = users
           /\ sessions' = sessions
      ]_vars

C10_Witness ==
    \E c \in Clients :
        /\ pc[c] = "done"
        /\ req[c].endpoint = "view"
        /\ SessionGet(sessions[c], "user_id") # NoneId
        /\ resp[c].kind = "view"
        /\ resp[c].target = req[c].kwargs
        /\ viewLog[c] = <<req[c].kwargs>>

\* C11: logout empties the session of every key, whatever it held, answers
\* with the redirect to the index and leaves the table alone; on an empty
\* session it does the same and the session stays empty, and a second
\* logout would leave what the first one left.
C11_LogoutClearsAll ==
    [][\A c \in Clients :
        (ViewSteps(c) /\ req[c].endpoint = "logout")
        => /\ pc'[c] = "done"
           /\ sessions'[c] = EmptySession
           /\ DOMAIN sessions'[c] = {}
           /\ LogoutSession(sessions'[c]) = sessions'[c]
           /\ resp'[c] = redirect("index")
           /\ users' = users
      ]_vars

C11_Witness ==
    \E c \in Clients :
        /\ pc[c] = "done"
        /\ req[c].endpoint = "logout"
        /\ DOMAIN sessionBefore[c] = SessionKeys
        /\ sessions[c] = EmptySession
        /\ resp[c] = redirect("index")
        /\ users # << >>

UniqueRows(table) ==
    \A i, j \in 1..Len(table) :
        (table[i].username = table[j].username \/ table[i].id = table[j].id) => i = j

\* C12: the table never holds two rows of one username or of one id; a step
\* changes it only by adding one row at the end, and only the insert of a
\* register POST that then redirects to the login page does so: no row's
\* id, username or password hash changes and no row goes away.
C12_UsersUniqueAppendOnly ==
    [][/\ UniqueRows(users)
       /\ UniqueRows(users')
       /\ Len(users') >= Len(users)
       /\ SubSeq(users', 1, Len(users)) = users
       /\ users' # users =>
            /\ Len(users') = Len(users) + 1
            /\ \E c \in Clients :
                /\ pc[c] = "insert"
                /\ IsPost(c, "register")
                /\ Returns(c)
                /\ resp'[c] = redirect("auth.login")
                /\ users'[Len(users')].username = req[c].form.username
      ]_vars

C12_Witness ==
    /\ Len(users) = 2
    /\ users[1].username # users[2].username
    /\ users[1].id # users[2].id
    /\ \E c \in Clients : resp[c] = unhandled("IntegrityError")

\* C14: right after a login POST that succeeds, the session holds user_id,
\* the id of the row with the posted username, and nothing else, whatever
\* keys and whichever user_id it held before.
C14_LoginReplacesSession ==
    [][\A c \in Clients :
        (/\ ViewSteps(c)
         /\ IsPost(c, "login")
         /\ resp'[c] = redirect("index"))
        => /\ DOMAIN sessions'[c] = {"user_id"}
           /\ \E r \in Rows(users) :
                /\ r.username = req[c].form.username
                /\ check_password_hash(r.password, req[c].form.password)
                /\ sessions'[c]["user_id"] = r.id
      ]_vars

C14_Witness ==
    \E c \in Clients :
        /\ pc[c] = "done"
        /\ IsPost(c, "login")
        /\ resp[c] = redirect("index")
        /\ DOMAIN sessionBefore[c] = SessionKeys
        /\ \E r \in Rows(users) : r.id = sessionBefore[c]["user_id"]
        /\ DOMAIN sessions[c] = {"user_id"}
        /\ sessions[c]["user_id"] # sessionBefore[c]["user_id"]

\* C15: the loader sets g.user to None when the session has no user_id, to
\* the row of that id when the table has one, and to None when it has
\* none; in that last case the session keeps the user_id.  The loader
\* changes neither the session nor the table.
C15_LoaderResolution ==
    [][\A c \in Clients :
        (pc[c] = "load" /\ pc'[c] = "view")
        => LET user_id == SessionGet(sessions[c], "user_id")
               found == {r \in Rows(users) : r.id = user_id}
           IN  /\ "user_id" \notin DOMAIN sessions[c] => g'[c] = NoneRow
               /\ ("user_id" \in DOMAIN sessions[c] /\ found # {}) => g'[c] \in found
               /\ ("user_id" \in DOMAIN sessions[c] /\ found = {}) =>
                    /\ g'[c] = NoneRow
                    /\ SessionGet(sessions'[c], "user_id") = user_id
               /\ sessions' = sessions
               /\ users' = users
      ]_vars

C15_Witness ==
    \E c \in Clients :
        /\ pc[c] = "view"
        /\ loads[c] = 1
        /\ "user_id" \in DOMAIN sessions[c]
        /\ users # << >>
        /\ \A r \in Rows(users) : r.id # sessions[c]["user_id"]
        /\ g[c] = NoneRow

\* C16: in every request the loader runs exactly once, before the view or
\* the guard takes a step: while the loader is pending it has not run and
\* g.user is unset, and from the view's first step to the response it has
\* run once and g.user is what the loader derives from the session the
\* request came with.
C16_LoaderBeforeHandler ==
    \A c \in Clients :
        /\ pc[c] = "load" => (loads[c] = 0 /\ g[c] = NoneRow /\ resp[c] = NoResponse)
        /\ pc[c] \in {"view", "insert"} =>
            /\ loads[c] = 1
            /\ g[c] = load_logged_in_user(users, sessionBefore[c])
        /\ (pc[c] = "done" /\ req[c] # NoRequest) => loads[c] = 1

C16_Witness ==
    \E c, d \in Clients :
        /\ pc[c] = "view" /\ req[c].endpoint = "view"
        /\ loads[c] = 1
        /\ g[c] # NoneRow
        /\ pc[d] = "done" /\ req[d].endpoint = "logout"
        /\ loads[d] = 1

C18_SessionFrame ==
    [][\A c \in Clients :
        /\ sessions'[c] # sessions[c] =>
            /\ ViewSteps(c)
            /\ \/ /\ IsPost(c, "login")
                  /\ resp'[c] = redirect("index")
                  /\ sessions'[c] = SessionSet(EmptySession, "user_id",
                                        SelectByUsername(users, req[c].form.username).id)
                  /\ SelectByUsername(users, req[c].form.username) # NoneRow
               \/ /\ req[c].endpoint = "logout"
                  /\ sessions'[c] = EmptySession
        /\ (/\ pc'[c] # pc[c]
            /\ \/ pc[c] = "load"
               \/ pc[c] = "insert"
               \/ (pc[c] = "view" /\ req[c].endpoint \in {"register", "view"})
               \/ (pc[c] = "view" /\ req[c].endpoint = "login"
                     /\ resp'[c] # redirect("index")))
           => sessions' = sessions
      ]_vars

C18_Witness ==
    \E c \in Clients :
        /\ RegisterSucceeded(c)
        /\ "user_id" \in DOMAIN sessions[c]
        /\ sessions[c] = sessionBefore[c]
        /\ Len(users) = 2
        /\ users[2].username = req[c].form.username
        /\ sessions[c]["user_id"] = users[1].id

\* C19: starting from an empty table and empty sessions, a session's
\* user_id, when present, is always the id of a row of the table; so a
\* request past its loader has g.user None exactly when its session has no
\* user_id, a session has a user_id exactly when the client's last
\* session-changing operation was a login that succeeded, and the wrapped
\* view of a finished guarded request ran exactly in that case.
C19_SessionIdentityValid ==
    \A c \in Clients :
        /\ "user_id" \in DOMAIN sessions[c] =>
              \E r \in Rows(users) : r.id = sessions[c]["user_id"]
        /\ pc[c] \in {"view", "insert"} =>
              (g[c] = NoneRow <=> "user_id" \notin DOMAIN sessions[c])
        /\ lastLogin[c] <=> "user_id" \in DOMAIN sessions[c]
        /\ (pc[c] = "done" /\ req[c].endpoint = "view") =>
              /\ viewLog[c] # << >> <=> lastLogin[c]
              /\ resp[c].kind = "view" <=> lastLogin[c]

C19_Witness ==
    \E c, d \in Clients :
        /\ pc[c] = "done" /\ req[c].endpoint = "view"
        /\ lastLogin[c]
        /\ viewLog[c] = <<req[c].kwargs>>
        /\ \E r \in Rows(users) : r.id = sessions[c]["user_id"]
        /\ pc[d] = "done" /\ req[d].endpoint = "view"
        /\ ~lastLogin[d]
        /\ viewLog[d] = << >>
        /\ resp[d] = redirect("auth.login")

FormOf(endpoint) ==
    IF endpoint = "register" THEN "auth/register.html" ELSE "auth/login.html"

\* C20: a request to register or login whose method is not POST renders
\* the form without a message and changes neither the table nor any
\* session; a row is added, and a user_id put into a session, only in a
\* step of a POST request.
C20_GetOnlyRenders ==
    [][/\ \A c \in Clients :
            (/\ ViewSteps(c)
             /\ req[c].endpoint \in {"register", "login"}
             /\ req[c].method # "POST")
            => /\ pc'[c] = "done"
               /\ resp'[c] = render_template(FormOf(req[c].endpoint), NoError)
               /\ users' = users
               /\ sessions' = sessions
       /\ users' # users =>
            \E c \in Clients : pc'[c] # pc[c] /\ req[c].method = "POST"
       /\ \A c \in Clients :
            (sessions'[c] # sessions[c] /\ "user_id" \in DOMAIN sessions'[c])
            => (pc'[c] # pc[c] /\ req[c].method = "POST")
      ]_vars

C20_Witness ==
    \E c, d \in Clients :
        /\ pc[c] = "done" /\ req[c].endpoint = "register" /\ req[c].method = "GET"
        /\ resp[c] = render_template("auth/register.html", NoError)
        /\ pc[d] = "done" /\ req[d].endpoint = "login" /\ req[d].method = "GET"
        /\ resp[d] = render_template("auth/login.html", NoError)
        /\ "user_id" \in DOMAIN sessions[d]
        /\ sessions[d] = sessionBefore[d]

====
